---- MODULE Spec2Model ----
(***************************************************************************)
(* pykwb: the packet reader and decoder of KWBEasyfire (src/pykwb/kwb.py). *)
(* The worker thread (run) reads one packet at a time from the byte source *)
(* with _read_packet, a byte-level state machine, and decodes it into the  *)
(* sensor lists with _decode_sense_packet or _decode_ctrl_packet.          *)
(***************************************************************************)
EXTENDS Integers, Sequences, FiniteSets, TLC

VARIABLES
    pc,                   \* position of the worker thread
    _run_thread,          \* self._run_thread
    status,               \* locals of _read_packet
    mode,
    checksum,
    checksum_calculated,
    length,
    i,
    cnt,
    packet,
    _sense_sensor,        \* self._sense_sensor
    _ctrl_sensor,         \* self._ctrl_sensor
    resyncs,              \* bytes consumed that left the reader in WAITING
    emitted,              \* packets returned by _read_packet so far
    first_well_formed,    \* the stream began with one whole Sense frame
    call,                 \* a single call of a helper (FnSpec only)
    byte_read,            \* the local read of _read_packet (-1: nothing read yet)
    after_stop,           \* packets decoded since the last stop_thread() (-1: no call yet)
    view,                 \* the list a consumer got from get_sensors (WorkerSpec only)
    observed,             \* the last value a consumer read from one sensor
    decode_k,             \* sensors the decode in progress has passed (WorkerSpec only)
    before                \* the sensor lists when the decode in progress began

vars == <<pc, _run_thread, status, mode, checksum, checksum_calculated, length,
          i, cnt, packet, _sense_sensor, _ctrl_sensor, resyncs, emitted,
          first_well_formed, call, byte_read, after_stop, view, observed,
          decode_k, before>>

consumer == <<view, observed>>

stepper == <<decode_k, before>>

reader == <<status, mode, checksum, checksum_calculated, length, i, cnt, packet>>

(***************************************************************************)
(* Program constants.                                                      *)
(***************************************************************************)
STATUS_WAITING == 0
STATUS_PRE_1 == 1
STATUS_SENSE_PRE_2 == 2
STATUS_SENSE_PRE_3 == 3
STATUS_SENSE_PRE_LENGTH == 6
STATUS_SENSE_DATA == 8
STATUS_SENSE_CHECKSUM == 9
STATUS_CTRL_PRE_2 == 10
STATUS_CTRL_PRE_3 == 11
STATUS_CTRL_DATA == 12
STATUS_CTRL_CHECKSUM == 19
STATUS_PACKET_DONE == 255

PROP_PACKET_SENSE == 0
PROP_PACKET_CTRL == 1

PROP_SENSOR_TEMPERATURE == 0
PROP_SENSOR_FLAG == 1
PROP_SENSOR_RAW == 2

(***************************************************************************)
(* Bounds of the model.                                                    *)
(***************************************************************************)
\* bytes the source may deliver that leave the reader in WAITING
MaxResync == 1
\* packets the worker reads
MaxFrames == 2
\* longest payload the reader is followed to (a declared length of 0 never
\* completes, see STATUS_SENSE_DATA)
MaxPacket == 38
\* longest packet handed to _sense_packet_to_data in FnSpec
MaxLen == 5

(***************************************************************************)
(* The byte source.  While the reader looks for a header the source may    *)
(* deliver any byte of Bytes (the protocol's markers, 0 and 38).  The      *)
(* declared length, the counter and each payload byte are bounded per      *)
(* position.                                                               *)
(***************************************************************************)
Bytes == {0, 2, 16, 17, 21, 38}

\* declared lengths: 0, too short for any slot, for two slots, for all slots
Lengths == {0, 2, 16, 38}

\* the counter byte (opaque to the reader)
Counters == {0}

\* values delivered for the pos-th payload byte (pos = 1 is packet[0])
SenseData(pos) ==
    IF pos \in 1..2 THEN {0, 2}
    ELSE IF pos = 3 THEN {0}
    ELSE IF pos = 6 THEN {255}
    ELSE {pos}

CtrlData(pos) ==
    IF pos = 3 THEN {2, 4}
    ELSE IF pos = 4 THEN {2}
    ELSE {pos}

(***************************************************************************)
(* Sensor values: None, a float with one decimal, a packet, a bit.         *)
(***************************************************************************)
None == [t |-> "None"]
float(neg, whole, tenth) == [t |-> "float", neg |-> neg, whole |-> whole, tenth |-> tenth]
bytearray(bytes) == [t |-> "bytearray", bytes |-> bytes]
int(n) == [t |-> "int", n |-> n]

KWBEasyfireSensor(p, index, name, sensor_type) ==
    [packet |-> p, index |-> index, name |-> name,
     sensor_type |-> sensor_type, value |-> None]

(***************************************************************************)
(* Python's integer operators on non-negative integers.                    *)
(***************************************************************************)
\* 2^n for the shift distances and bit positions in use
Pow2(n) == <<1, 2, 4, 8, 16, 32, 64, 128, 256, 512, 1024, 2048, 4096, 8192,
             16384, 32768>>[n + 1]

shl(x, d) == x * Pow2(d)
shr(x, d) == x \div Pow2(d)

\* bit k of x
bit(x, k) == (x \div Pow2(k)) % 2

\* a & b and a | b, for operands below 2^16
bit_and(a, b) ==
    LET both(k) == bit(a, k) * bit(b, k) * Pow2(k)
    IN both(0) + both(1) + both(2) + both(3) + both(4) + both(5) + both(6) + both(7)
       + both(8) + both(9) + both(10) + both(11) + both(12) + both(13) + both(14)
       + both(15)

bit_or(a, b) == a + b - bit_and(a, b)

\* seq[k] with Python's 0-based index
At(seq, k) == seq[k + 1]

(***************************************************************************)
(* Checksum.                                                               *)
(***************************************************************************)
_byte_rot_left(byte, distance) ==
    bit_or(shl(byte, distance), shr(byte, 8 - distance)) % 256

\* Variant for comparison: a sum above 255 is kept
add_to_checksum_unreduced(sum, value) == _byte_rot_left(sum, 1) + value

_add_to_checksum(sum, value) ==
    LET rotated == _byte_rot_left(sum, 1)
        added == rotated + value
    IN IF added > 255 THEN added - 255 ELSE added

(***************************************************************************)
(* _sense_packet_to_data: the loop of lines 232-236, from i with the data  *)
(* collected so far and the previous byte in last.                         *)
(***************************************************************************)
RECURSIVE sense_packet_loop(_, _, _, _)
sense_packet_loop(p, data, last, k) ==
    \* (the test of data has TLC evaluate it at each pass)
    IF k < Len(p) /\ Len(data) >= 0
    THEN sense_packet_loop(p,
                           IF ~(last = 2 /\ At(p, k) = 0) THEN Append(data, At(p, k)) ELSE data,
                           At(p, k),
                           k + 1)
    ELSE data

\* Variant for comparison: the first byte counts as the byte before packet[1]
sense_packet_last_first(p) ==
    sense_packet_loop(p, <<>>, IF Len(p) > 0 THEN At(p, 0) ELSE 0, 1)

\* Variant for comparison: the scan starts at the first byte
sense_packet_from_0(p) == sense_packet_loop(p, <<>>, 0, 0)

_sense_packet_to_data(p) == sense_packet_loop(p, <<>>, 0, 1)

(***************************************************************************)
(* _decode_temp.  temp / 10 is a float; it is kept as its decimal digits.  *)
(***************************************************************************)
true_div_10(t) ==
    LET a == IF t < 0 THEN -t ELSE t
    IN float(t < 0, a \div 10, a % 10)

\* Variant for comparison: the sign test is off by one
decode_temp_off_by_one(byte_1, byte_2) ==
    LET temp == shl(byte_1, 8) + byte_2
    IN true_div_10(IF temp > 32768 THEN temp - 65536 ELSE temp)

_decode_temp(byte_1, byte_2) ==
    LET temp == shl(byte_1, 8) + byte_2
    IN true_div_10(IF temp > 32767 THEN temp - 65536 ELSE temp)

(***************************************************************************)
(* The sensor lists built by __init__.                                     *)
(***************************************************************************)
InitSenseSensors ==
    << KWBEasyfireSensor(PROP_PACKET_SENSE, 0, "RAW SENSE", PROP_SENSOR_RAW),
       KWBEasyfireSensor(PROP_PACKET_SENSE, 0, "Supply", PROP_SENSOR_TEMPERATURE),
       KWBEasyfireSensor(PROP_PACKET_SENSE, 1, "Return", PROP_SENSOR_TEMPERATURE),
       KWBEasyfireSensor(PROP_PACKET_SENSE, 2, "Boiler 0", PROP_SENSOR_TEMPERATURE),
       KWBEasyfireSensor(PROP_PACKET_SENSE, 3, "Furnace", PROP_SENSOR_TEMPERATURE),
       KWBEasyfireSensor(PROP_PACKET_SENSE, 4, "Buffer Tank 2", PROP_SENSOR_TEMPERATURE),
       KWBEasyfireSensor(PROP_PACKET_SENSE, 5, "Buffer Tank 1", PROP_SENSOR_TEMPERATURE),
       KWBEasyfireSensor(PROP_PACKET_SENSE, 6, "Outside", PROP_SENSOR_TEMPERATURE),
       KWBEasyfireSensor(PROP_PACKET_SENSE, 7, "Exhaust", PROP_SENSOR_TEMPERATURE),
       KWBEasyfireSensor(PROP_PACKET_SENSE, 8, "Unknown", PROP_SENSOR_TEMPERATURE),
       KWBEasyfireSensor(PROP_PACKET_SENSE, 12, "Stoker Channel", PROP_SENSOR_TEMPERATURE) >>

InitCtrlSensors ==
    << KWBEasyfireSensor(PROP_PACKET_CTRL, 0, "RAW CTRL", PROP_SENSOR_RAW),
       KWBEasyfireSensor(PROP_PACKET_CTRL, 17, "Return Mixer", PROP_SENSOR_FLAG),
       KWBEasyfireSensor(PROP_PACKET_CTRL, 25, "Unknown Resupply", PROP_SENSOR_FLAG) >>

(***************************************************************************)
(* _read_packet: the locals at entry, and one pass of the while loop on    *)
(* the byte read.                                                          *)
(***************************************************************************)
ReaderLocals ==
    [status |-> STATUS_WAITING, mode |-> 0, checksum |-> 0,
     checksum_calculated |-> 0, length |-> 0, i |-> 0, cnt |-> 0, packet |-> <<>>]

\* Variant for comparison: the payload is taken to be complete one byte late
data_complete_late(n, len) == n = len + 1

\* the payload is complete (lines 300 and 319)
data_complete(n, len) == n = len

\* lines 265-266: every byte but a checksum byte is added to the checksum
read_packet_add(r, read) ==
    IF r.status # STATUS_CTRL_CHECKSUM /\ r.status # STATUS_SENSE_CHECKSUM
    THEN [r EXCEPT !.checksum_calculated = _add_to_checksum(r.checksum_calculated, read)]
    ELSE r

\* lines 270-326: the branch of the status
read_packet_branch(s, read) ==
       CASE s.status = STATUS_WAITING ->
              IF read = 2
              THEN [s EXCEPT !.status = STATUS_PRE_1, !.checksum_calculated = read]
              ELSE [s EXCEPT !.status = STATUS_WAITING]
         [] s.status = STATUS_PRE_1 ->
              IF read = 2
              THEN [s EXCEPT !.checksum = 0, !.status = STATUS_SENSE_PRE_2,
                             !.checksum_calculated = read]
              ELSE IF read = 21
              THEN [s EXCEPT !.checksum = 0, !.status = STATUS_CTRL_PRE_2]
              ELSE [s EXCEPT !.checksum = 0, !.status = STATUS_WAITING]
         [] s.status = STATUS_SENSE_PRE_2 ->
              [s EXCEPT !.length = read, !.status = STATUS_SENSE_PRE_LENGTH]
         [] s.status = STATUS_SENSE_PRE_LENGTH ->
              IF read = 16
              THEN [s EXCEPT !.status = STATUS_SENSE_PRE_3]
              ELSE [s EXCEPT !.status = STATUS_WAITING]
         [] s.status = STATUS_SENSE_PRE_3 ->
              [s EXCEPT !.cnt = read, !.i = 0, !.status = STATUS_SENSE_DATA]
         [] s.status = STATUS_SENSE_DATA ->
              [s EXCEPT !.packet = Append(s.packet, read), !.i = s.i + 1,
                        !.status = IF data_complete(s.i + 1, s.length)
                                   THEN STATUS_SENSE_CHECKSUM ELSE STATUS_SENSE_DATA]
         [] s.status = STATUS_SENSE_CHECKSUM ->
              [s EXCEPT !.checksum = read, !.mode = PROP_PACKET_SENSE,
                        !.status = STATUS_PACKET_DONE]
         [] s.status = STATUS_CTRL_PRE_2 ->
              IF read = 17
              THEN [s EXCEPT !.status = STATUS_CTRL_PRE_3]
              ELSE [s EXCEPT !.status = STATUS_WAITING]
         [] s.status = STATUS_CTRL_PRE_3 ->
              [s EXCEPT !.cnt = read, !.i = 0, !.length = 16, !.status = STATUS_CTRL_DATA]
         [] s.status = STATUS_CTRL_DATA ->
              [s EXCEPT !.packet = Append(s.packet, read), !.i = s.i + 1,
                        !.status = IF data_complete(s.i + 1, s.length)
                                   THEN STATUS_CTRL_CHECKSUM ELSE STATUS_CTRL_DATA]
         [] s.status = STATUS_CTRL_CHECKSUM ->
              [s EXCEPT !.checksum = read, !.mode = PROP_PACKET_CTRL,
                        !.status = STATUS_PACKET_DONE]
         [] OTHER -> [s EXCEPT !.status = STATUS_WAITING]

\* Variant for comparison: a byte that sends the reader to STATUS_WAITING is
\* kept in the packet
read_packet_step_buffering(r, read) ==
    LET s == read_packet_branch(read_packet_add(r, read), read)
    IN IF s.status = STATUS_WAITING
       THEN [s EXCEPT !.packet = Append(r.packet, read)]
       ELSE s

\* Variant for comparison: a 2 that does not match is taken as the first
\* byte of the next header
read_packet_step_reexamine(r, read) ==
    LET s == read_packet_branch(read_packet_add(r, read), read)
    IN IF s.status = STATUS_WAITING /\ r.status # STATUS_WAITING /\ read = 2
       THEN [s EXCEPT !.status = STATUS_PRE_1, !.checksum_calculated = read]
       ELSE s

read_packet_step(r, read) == read_packet_branch(read_packet_add(r, read), read)

\* Variant for comparison: the loop is also left when a stop is requested
read_packet_exit_on_stop(r) == r.status = STATUS_PACKET_DONE \/ ~_run_thread

\* the test that ends the while loop of _read_packet
read_packet_exit(r) == r.status = STATUS_PACKET_DONE

\* the while loop of _read_packet over the bytes of stream, from the k-th on
RECURSIVE read_packet_run(_, _, _)
read_packet_run(r, stream, k) ==
    IF r.status = STATUS_PACKET_DONE \/ k > Len(stream) THEN r
    ELSE read_packet_run(read_packet_step(r, stream[k]), stream, k + 1)

(***************************************************************************)
(* _decode_sense_packet.  temp[sensor.index] raises IndexError when the    *)
(* index is not below len(temp); the sensors before it are already set.    *)
(***************************************************************************)
\* int(datalen / 2): a true division, truncated towards zero
int_half(n) == IF n >= 0 THEN n \div 2 ELSE -((-n) \div 2)

sense_offset == 4

\* Variant for comparison: the pairs are taken one byte further on
temp_list_shifted(data) ==
    LET datalen == Len(data) - sense_offset - 6
        temp_count == int_half(datalen)
    IN IF temp_count <= 0 THEN <<>> ELSE
       [k \in 1..temp_count |->
           _decode_temp(At(data, (k - 1) * 2 + sense_offset + 1),
                        At(data, (k - 1) * 2 + sense_offset + 2))]

temp_list(data) ==
    LET datalen == Len(data) - sense_offset - 6
        temp_count == int_half(datalen)
    IN IF temp_count <= 0 THEN <<>> ELSE
       [k \in 1..temp_count |->
           _decode_temp(At(data, (k - 1) * 2 + sense_offset),
                        At(data, (k - 1) * 2 + sense_offset + 1))]

\* the first sensor of the list whose temp[sensor.index] raises IndexError
\* (Len(sensors) + 1: none)
first_index_error(sensors, temp) ==
    LET bad == {k \in 1..Len(sensors) :
                   /\ sensors[k].sensor_type = PROP_SENSOR_TEMPERATURE
                   /\ sensors[k].index >= Len(temp)}
    IN IF bad = {} THEN Len(sensors) + 1
       ELSE CHOOSE k \in bad : \A m \in bad : k <= m

\* the for loop over the sensors, left at the first IndexError
sense_sensor_loop(sensors, temp, p) ==
    LET stop == first_index_error(sensors, temp)
    IN [sensors |->
           [k \in 1..Len(sensors) |->
               IF k >= stop THEN sensors[k]
               ELSE IF sensors[k].sensor_type = PROP_SENSOR_TEMPERATURE
               THEN [sensors[k] EXCEPT !.value = At(temp, sensors[k].index)]
               ELSE IF sensors[k].sensor_type = PROP_SENSOR_RAW
               THEN [sensors[k] EXCEPT !.value = bytearray(p)]
               ELSE sensors[k]],
        raised |-> stop <= Len(sensors)]

_decode_sense_packet(sensors, p) ==
    sense_sensor_loop(sensors, temp_list(_sense_packet_to_data(p)), p)

(***************************************************************************)
(* _decode_ctrl_packet.                                                    *)
(***************************************************************************)
\* Variant for comparison: the bits of a byte are counted from the most significant one
ctrl_flag_msb_first(p, index) ==
    bit_and(shr(At(p, index \div 8), 7 - (index % 8)), 1)

ctrl_flag(p, index) == bit_and(shr(At(p, index \div 8), index % 8), 1)

\* Variant for comparison: only the Flag sensors are set
decode_ctrl_flags_only(sensors, p) ==
    [k \in 1..Len(sensors) |->
        IF sensors[k].sensor_type = PROP_SENSOR_FLAG
        THEN [sensors[k] EXCEPT !.value = int(ctrl_flag(p, sensors[k].index))]
        ELSE sensors[k]]

_decode_ctrl_packet(sensors, p) ==
    [k \in 1..Len(sensors) |->
        IF sensors[k].sensor_type = PROP_SENSOR_FLAG
        THEN [sensors[k] EXCEPT !.value = int(ctrl_flag(p, sensors[k].index))]
        ELSE IF sensors[k].sensor_type = PROP_SENSOR_RAW
        THEN [sensors[k] EXCEPT !.value = bytearray(p)]
        ELSE sensors[k]]

(***************************************************************************)
(* The frame a completed read consumed, and the checksum of the protocol   *)
(* over it: the accumulator starts as the first byte and takes every later *)
(* byte but the checksum byte.                                             *)
(***************************************************************************)
RECURSIVE fold_checksum(_, _, _)
fold_checksum(bytes, k, acc) ==
    \* (the test of acc has TLC evaluate it at each pass)
    IF k > Len(bytes) \/ acc < 0 THEN acc
    ELSE fold_checksum(bytes, k + 1, _add_to_checksum(acc, bytes[k]))

FrameBytes(r) ==
    IF r.status \in {STATUS_SENSE_PRE_2, STATUS_SENSE_PRE_LENGTH, STATUS_SENSE_PRE_3,
                      STATUS_SENSE_DATA, STATUS_SENSE_CHECKSUM}
       \/ (r.status = STATUS_PACKET_DONE /\ r.mode = PROP_PACKET_SENSE)
    THEN <<2, 2, r.length, 16, r.cnt>> \o r.packet
    ELSE <<2, 21, 17, r.cnt>> \o r.packet

FrameSum(r) == fold_checksum(FrameBytes(r), 2, FrameBytes(r)[1])

(***************************************************************************)
(* State and actions.                                                      *)
(***************************************************************************)
Locals ==
    [status |-> status, mode |-> mode, checksum |-> checksum,
     checksum_calculated |-> checksum_calculated, length |-> length,
     i |-> i, cnt |-> cnt, packet |-> packet]

SetLocals(r) ==
    /\ status' = r.status
    /\ mode' = r.mode
    /\ checksum' = r.checksum
    /\ checksum_calculated' = r.checksum_calculated
    /\ length' = r.length
    /\ i' = r.i
    /\ cnt' = r.cnt
    /\ packet' = r.packet

NoCall == [fn |-> "none"]

Start ==
    /\ pc = "idle"
    /\ _run_thread = TRUE
    /\ status = ReaderLocals.status
    /\ mode = ReaderLocals.mode
    /\ checksum = ReaderLocals.checksum
    /\ checksum_calculated = ReaderLocals.checksum_calculated
    /\ length = ReaderLocals.length
    /\ i = ReaderLocals.i
    /\ cnt = ReaderLocals.cnt
    /\ packet = ReaderLocals.packet
    /\ _sense_sensor = InitSenseSensors
    /\ _ctrl_sensor = InitCtrlSensors
    /\ resyncs = 0
    /\ emitted = 0
    /\ first_well_formed = FALSE
    /\ byte_read = -1
    /\ after_stop = -1
    /\ view = None
    /\ observed = None
    /\ decode_k = 0
    /\ before = <<>>

Init ==
    /\ Start
    /\ call = NoCall

\* run_thread(): sets the flag and starts the worker; the thread starts only
\* once (a later call raises RuntimeError in the caller, after the flag is set)
run_thread ==
    /\ _run_thread' = TRUE
    /\ pc' = IF pc = "idle" THEN "run" ELSE pc
    /\ UNCHANGED <<reader, _sense_sensor, _ctrl_sensor, resyncs, emitted,
                   first_well_formed, call, byte_read, after_stop, consumer, stepper>>

\* stop_thread()
stop_thread ==
    /\ _run_thread' = FALSE
    /\ after_stop' = 0
    /\ UNCHANGED <<pc, reader, _sense_sensor, _ctrl_sensor, resyncs, emitted,
                   first_well_formed, call, byte_read, consumer, stepper>>

\* Variant for comparison: the loop goes on whatever the flag
run_while_untested ==
    /\ pc = "run"
    /\ emitted < MaxFrames
    /\ pc' = "read"
    /\ SetLocals(ReaderLocals)
    /\ byte_read' = -1
    /\ UNCHANGED <<_run_thread, _sense_sensor, _ctrl_sensor, resyncs, emitted,
                   first_well_formed, call, after_stop, consumer, stepper>>

\* run: the test of the while loop and the entry of _read_packet
run_while ==
    /\ pc = "run"
    /\ _run_thread => emitted < MaxFrames
    /\ IF _run_thread
       THEN /\ pc' = "read"
            /\ SetLocals(ReaderLocals)
            /\ byte_read' = -1
       ELSE /\ pc' = "exit"
            /\ UNCHANGED <<reader, byte_read>>
    /\ UNCHANGED <<_run_thread, _sense_sensor, _ctrl_sensor, resyncs, emitted,
                   first_well_formed, call, after_stop, consumer, stepper>>

\* the bytes the source may deliver next
Source ==
    CASE status = STATUS_SENSE_PRE_2 -> Lengths
      [] status \in {STATUS_SENSE_PRE_3, STATUS_CTRL_PRE_3} -> Counters
      [] status = STATUS_SENSE_DATA -> SenseData(i + 1)
      [] status = STATUS_CTRL_DATA -> CtrlData(i + 1)
      [] status \in {STATUS_SENSE_CHECKSUM, STATUS_CTRL_CHECKSUM} ->
            {0, checksum_calculated, FrameSum(Locals)}
      [] OTHER -> Bytes

\* _read_packet: one byte read and one pass of the while loop; the packet
\* is returned to run when the status is STATUS_PACKET_DONE
read_byte ==
    /\ pc = "read"
    /\ status \in {STATUS_SENSE_DATA, STATUS_CTRL_DATA} => Len(packet) < MaxPacket
    /\ \E read \in Source :
         LET r == read_packet_step(Locals, read)
             done == read_packet_exit(r)
         IN /\ r.status = STATUS_WAITING => resyncs < MaxResync
            /\ SetLocals(r)
            /\ byte_read' = read
            /\ resyncs' = IF r.status = STATUS_WAITING THEN resyncs + 1 ELSE resyncs
            /\ pc' = IF done THEN "decode" ELSE "read"
            /\ emitted' = IF done THEN emitted + 1 ELSE emitted
            /\ first_well_formed' =
                 IF done /\ emitted = 0
                 THEN /\ resyncs = 0
                      /\ r.mode = PROP_PACKET_SENSE
                      /\ r.checksum = FrameSum(r)
                 ELSE first_well_formed
    /\ UNCHANGED <<_run_thread, _sense_sensor, _ctrl_sensor, call, after_stop,
                   consumer, stepper>>

\* run: the packet returned is decoded; an exception ends the thread
decode ==
    /\ pc = "decode"
    /\ IF mode = PROP_PACKET_SENSE
       THEN LET d == _decode_sense_packet(_sense_sensor, packet)
            IN /\ _sense_sensor' = d.sensors
               /\ pc' = IF d.raised THEN "crashed" ELSE "run"
               /\ UNCHANGED _ctrl_sensor
       ELSE /\ mode = PROP_PACKET_CTRL
            /\ _ctrl_sensor' = _decode_ctrl_packet(_ctrl_sensor, packet)
            /\ pc' = "run"
            /\ UNCHANGED _sense_sensor
    /\ after_stop' = IF after_stop >= 0 THEN after_stop + 1 ELSE after_stop
    /\ UNCHANGED <<_run_thread, reader, resyncs, emitted, first_well_formed, call,
                   byte_read, consumer, stepper>>

Next == run_thread \/ stop_thread \/ run_while \/ read_byte \/ decode

Spec == Init /\ [][Next]_vars

(***************************************************************************)
(* Whole frames of the source.                                             *)
(***************************************************************************)
\* payloads of the frames the source delivers
SensePayloads ==
    { [k \in 1..38 |-> k],
      [k \in 1..38 |-> IF k = 7 THEN 255 ELSE 40 - k],
      <<0, 0>> }

CtrlPayloads ==
    { [k \in 1..16 |-> IF k = 3 THEN 4 ELSE 0],
      [k \in 1..16 |-> IF k = 4 THEN 2 ELSE 0] }

\* the frames: header, counter, payload and a checksum byte
Frames ==
    {<<2, 2, Len(p), 16, 0>> \o p \o <<0>> : p \in SensePayloads}
    \cup {<<2, 21, 17, 0>> \o p \o <<0>> : p \in CtrlPayloads}

\* the places of the payload bytes in a frame
PayloadPlaces(stream) ==
    IF stream[2] = 2 THEN 6..(Len(stream) - 1) ELSE 5..(Len(stream) - 1)

\* the frame with the checksum byte the reader computes for it
Sealed(stream) ==
    [stream EXCEPT ![Len(stream)] =
        read_packet_run(ReaderLocals, stream, 1).checksum_calculated]

(***************************************************************************)
(* FnSpec: one call of a helper on an argument drawn from a bounded set.   *)
(***************************************************************************)
\* a frame, the place of one of its payload bytes and another byte for it
Corruptions ==
    UNION {UNION {{<<stream, k, b>> : b \in {0, 1, 255} \ {stream[k]}} :
                     k \in PayloadPlaces(stream)} : stream \in Frames}

EscBytes == {0, 2, 7}

\* every packet over EscBytes of at most MaxLen bytes
EscPackets == UNION {[1..n -> EscBytes] : n \in 0..MaxLen}

\* 16-byte control payloads: every value of byte 2, four values of byte 3
CtrlPackets ==
    {[k \in 1..16 |-> IF k = 3 THEN x ELSE IF k = 4 THEN y ELSE 0] :
        x \in 0..255, y \in {0, 2, 253, 255}}

Calls ==
    {[fn |-> "_sense_packet_to_data", args |-> <<p>>, done |-> FALSE, result |-> None] :
        p \in EscPackets}
    \cup {[fn |-> "_decode_temp", args |-> <<b1, b2>>, done |-> FALSE, result |-> None] :
        b1 \in 0..255, b2 \in {0, 1, 127, 128, 133, 255}}
    \cup {[fn |-> "_decode_ctrl_packet", args |-> <<p>>, done |-> FALSE, result |-> None] :
        p \in CtrlPackets}
    \cup {[fn |-> "_read_packet", args |-> c, done |-> FALSE, result |-> None] :
        c \in Corruptions}

FnInit ==
    /\ Start
    /\ call \in Calls

fn_sense_packet_to_data ==
    /\ call.fn = "_sense_packet_to_data"
    /\ ~call.done
    /\ call' = [call EXCEPT !.done = TRUE,
                            !.result = bytearray(_sense_packet_to_data(call.args[1]))]
    /\ UNCHANGED <<pc, _run_thread, reader, _sense_sensor, _ctrl_sensor, resyncs,
                   emitted, first_well_formed, byte_read, after_stop, consumer,
                   stepper>>

fn_decode_temp ==
    /\ call.fn = "_decode_temp"
    /\ ~call.done
    /\ call' = [call EXCEPT !.done = TRUE,
                            !.result = _decode_temp(call.args[1], call.args[2])]
    /\ UNCHANGED <<pc, _run_thread, reader, _sense_sensor, _ctrl_sensor, resyncs,
                   emitted, first_well_formed, byte_read, after_stop, consumer,
                   stepper>>

fn_decode_ctrl_packet ==
    /\ call.fn = "_decode_ctrl_packet"
    /\ ~call.done
    /\ _ctrl_sensor' = _decode_ctrl_packet(_ctrl_sensor, call.args[1])
    /\ call' = [call EXCEPT !.done = TRUE]
    /\ UNCHANGED <<pc, _run_thread, reader, _sense_sensor, resyncs, emitted,
                   first_well_formed, byte_read, after_stop, consumer, stepper>>

\* _read_packet on a frame with its computed checksum, and on the same
\* bytes with one payload byte replaced
fn_read_packet ==
    /\ call.fn = "_read_packet"
    /\ ~call.done
    /\ LET sealed == Sealed(call.args[1])
           intact == read_packet_run(ReaderLocals, sealed, 1)
           corrupt == read_packet_run(ReaderLocals,
                                      [sealed EXCEPT ![call.args[2]] = call.args[3]], 1)
       IN /\ call' = [call EXCEPT !.done = TRUE,
                                  !.result = [intact |-> intact, corrupt |-> corrupt]]
          /\ SetLocals(corrupt)
    /\ UNCHANGED <<pc, _run_thread, _sense_sensor, _ctrl_sensor, resyncs, emitted,
                   first_well_formed, byte_read, after_stop, consumer, stepper>>

FnNext ==
    fn_sense_packet_to_data \/ fn_decode_temp \/ fn_decode_ctrl_packet
    \/ fn_read_packet

FnSpec == FnInit /\ [][FnNext]_vars

(***************************************************************************)
(* WorkerSpec: the worker and a consumer thread.  _read_packet is one step *)
(* (the packet of one whole frame of the source), the decoders take one    *)
(* step for each pass of their loop over the sensors, and the consumer     *)
(* calls get_sensors and reads the value of one sensor of the list it got. *)
(***************************************************************************)
\* Variant for comparison: a float is written in place, a field at a time, and
\* is seen after the first field
value_setter_in_place(sensor, _value) ==
    IF sensor.value.t = "float" /\ _value.t = "float"
    THEN [sensor EXCEPT !.value = [_value EXCEPT !.tenth = sensor.value.tenth]]
    ELSE [sensor EXCEPT !.value = _value]

\* the setter of KWBEasyfireSensor.value
value_setter(sensor, _value) == [sensor EXCEPT !.value = _value]

\* one pass of the for loop of _decode_sense_packet, on the k-th sensor
sense_sensor_pass(sensors, temp, p, k) ==
    IF sensors[k].sensor_type = PROP_SENSOR_TEMPERATURE
    THEN IF sensors[k].index >= Len(temp)
         THEN [sensors |-> sensors, raised |-> TRUE]
         ELSE [sensors |-> [sensors EXCEPT ![k] = value_setter(@, At(temp, sensors[k].index))],
               raised |-> FALSE]
    ELSE IF sensors[k].sensor_type = PROP_SENSOR_RAW
    THEN [sensors |-> [sensors EXCEPT ![k] = value_setter(@, bytearray(p))],
          raised |-> FALSE]
    ELSE [sensors |-> sensors, raised |-> FALSE]

\* one pass of the for loop of _decode_ctrl_packet, on the k-th sensor
ctrl_sensor_pass(sensors, p, k) ==
    IF sensors[k].sensor_type = PROP_SENSOR_FLAG
    THEN [sensors EXCEPT ![k] = value_setter(@, int(ctrl_flag(p, sensors[k].index)))]
    ELSE IF sensors[k].sensor_type = PROP_SENSOR_RAW
    THEN [sensors EXCEPT ![k] = value_setter(@, bytearray(p))]
    ELSE sensors

\* the list get_sensors returns: the sensor objects of both lists
sensor_refs ==
    [n \in 1..(Len(_sense_sensor) + Len(_ctrl_sensor)) |->
        IF n <= Len(_sense_sensor)
        THEN [list |-> "_sense_sensor", k |-> n]
        ELSE [list |-> "_ctrl_sensor", k |-> n - Len(_sense_sensor)]]

\* the object a reference of the list stands for, in the given lists
Deref(ref, sense, ctrl) ==
    IF ref.list = "_sense_sensor" THEN sense[ref.k] ELSE ctrl[ref.k]

\* the values a consumer reads from the list v now
ViewValues(v) == [n \in 1..Len(v) |-> Deref(v[n], _sense_sensor, _ctrl_sensor).value]

\* _read_packet as one step: the packet of one frame of the source
read_packet ==
    /\ pc = "read"
    /\ \E stream \in Frames :
         LET r == read_packet_run(Locals, stream, 1)
         IN /\ r.status = STATUS_PACKET_DONE
            /\ SetLocals(r)
            /\ byte_read' = stream[Len(stream)]
    /\ pc' = "decode"
    /\ emitted' = emitted + 1
    /\ decode_k' = 0
    /\ before' = [sense |-> _sense_sensor, ctrl |-> _ctrl_sensor]
    /\ UNCHANGED <<_run_thread, _sense_sensor, _ctrl_sensor, resyncs,
                   first_well_formed, call, after_stop, consumer>>

\* the decoder called by run: one pass of its loop over the sensors; the
\* call returns after the last pass, an IndexError ends the thread
decode_sensor ==
    /\ pc = "decode"
    /\ decode_k' = decode_k + 1
    /\ IF mode = PROP_PACKET_SENSE
       THEN LET d == sense_sensor_pass(_sense_sensor,
                                       temp_list(_sense_packet_to_data(packet)),
                                       packet, decode_k + 1)
            IN /\ _sense_sensor' = d.sensors
               /\ pc' = IF d.raised THEN "crashed"
                        ELSE IF decode_k + 1 = Len(_sense_sensor) THEN "run"
                        ELSE "decode"
               /\ UNCHANGED _ctrl_sensor
       ELSE /\ mode = PROP_PACKET_CTRL
            /\ _ctrl_sensor' = ctrl_sensor_pass(_ctrl_sensor, packet, decode_k + 1)
            /\ pc' = IF decode_k + 1 = Len(_ctrl_sensor) THEN "run" ELSE "decode"
            /\ UNCHANGED _sense_sensor
    /\ after_stop' = IF after_stop >= 0 /\ pc' # "decode" THEN after_stop + 1
                     ELSE after_stop
    /\ UNCHANGED <<_run_thread, reader, resyncs, emitted, first_well_formed, call,
                   byte_read, consumer, before>>

\* a consumer calls get_sensors()
get_sensors ==
    /\ view' = sensor_refs
    /\ UNCHANGED <<pc, _run_thread, reader, _sense_sensor, _ctrl_sensor, resyncs,
                   emitted, first_well_formed, call, byte_read, after_stop,
                   observed, stepper>>

\* the places in the list of the sensors the consumer reads: RAW SENSE,
\* Supply, RAW CTRL, Return Mixer
Watched == {1, 2, 12, 13}

\* the consumer reads the value of one sensor of its list
read_value ==
    /\ view # None
    /\ \E n \in Watched :
         observed' = [n |-> n,
                      value |-> Deref(view[n], _sense_sensor, _ctrl_sensor).value]
    /\ UNCHANGED <<pc, _run_thread, reader, _sense_sensor, _ctrl_sensor, resyncs,
                   emitted, first_well_formed, call, byte_read, after_stop,
                   view, stepper>>

WorkerNext ==
    run_thread \/ run_while \/ read_packet \/ decode_sensor \/ get_sensors
    \/ read_value

WorkerSpec == Init /\ [][WorkerNext]_vars

(***************************************************************************)
(* Properties of Spec.                                                     *)
(***************************************************************************)
Returned == pc = "decode"

\* C1: every packet _read_packet returns has a payload of exactly the
\* declared length (Sense) or of exactly 16 bytes (Control).
C1_PayloadLength ==
    Returned =>
        /\ mode \in {PROP_PACKET_SENSE, PROP_PACKET_CTRL}
        /\ mode = PROP_PACKET_SENSE => Len(packet) = length
        /\ mode = PROP_PACKET_CTRL => Len(packet) = 16

C1_Witness ==
    /\ Returned
    /\ mode = PROP_PACKET_SENSE
    /\ length = 38
    /\ Len(packet) = 38

\* C2: a packet whose received checksum differs from the checksum the
\* reader computed is not handed on and decoded into the sensors.
C2_MismatchNotDecoded ==
    [][(Returned /\ checksum # checksum_calculated)
         => (_sense_sensor' = _sense_sensor /\ _ctrl_sensor' = _ctrl_sensor)]_vars

\* the unescaped payload has room for the offset, the trailer and slot 12
TooShort(p) == Len(_sense_packet_to_data(p)) < sense_offset + 6 + 2 * (12 + 1)

\* C3: decoding a Sense packet that is too short leaves every sensor as it
\* was and the worker goes on with the next read.
C3_ShortFrameDropped ==
    [][(Returned /\ mode = PROP_PACKET_SENSE /\ TooShort(packet) /\ pc' # pc)
         => (pc' = "run" /\ _sense_sensor' = _sense_sensor
                         /\ _ctrl_sensor' = _ctrl_sensor)]_vars

\* C4: when the stream is one well-formed Sense frame followed by noise
\* (bytes that hold no frame with a valid checksum), the reader returns no
\* second packet.
C4_NoFrameFromNoise ==
    (first_well_formed /\ Returned /\ emitted >= 2)
        => (checksum = checksum_calculated \/ checksum = FrameSum(Locals))

\* C5: the checksum computed for a returned packet is the fold over all of
\* its bytes, from the first preamble byte to the last payload byte.
C5_ChecksumOverWholeFrame ==
    Returned => checksum_calculated = FrameSum(Locals)

\* C9: after a successful decode of a Sense packet every Temperature sensor
\* of slot k holds the temperature of the unescaped bytes 4+2k and 4+2k+1,
\* a pair that ends before the 6 trailer bytes, and the Raw sensor holds the
\* packet as received.
C9_SenseDecoded ==
    [][(Returned /\ mode = PROP_PACKET_SENSE /\ pc' = "run")
         => LET data == _sense_packet_to_data(packet)
            IN \A n \in 1..Len(_sense_sensor') :
                 LET s == _sense_sensor'[n]
                     k == s.index
                 IN /\ s.sensor_type = PROP_SENSOR_TEMPERATURE =>
                         /\ 4 + 2 * k + 1 < Len(data) - 6
                         /\ s.value = _decode_temp(At(data, 4 + 2 * k),
                                                   At(data, 4 + 2 * k + 1))
                    /\ s.sensor_type = PROP_SENSOR_RAW => s.value = bytearray(packet)]_vars

\* a Sense packet with an escape pair has been decoded into every sensor
C9_Witness ==
    /\ pc = "run"
    /\ _sense_sensor[11].value # None
    /\ _sense_sensor[1].value = bytearray(packet)
    /\ At(packet, 1) = 2
    /\ At(packet, 2) = 0
    /\ _sense_sensor[2].value = _decode_temp(7, 8)

\* C13: a stop request is acted on only between packets: the worker exits
\* only from the test of its loop with the flag cleared, a call of
\* _read_packet goes on until its packet is complete whatever the flag, and
\* the packet it returns is decoded before the test is reached again.
C13_StopBetweenFrames ==
    [][/\ (pc' = "exit" /\ pc # "exit") => (pc = "run" /\ ~_run_thread)
       /\ pc = "read" => pc' \in {"read", "decode"}
       /\ (pc = "read" /\ pc' = "decode") => status' = STATUS_PACKET_DONE
       /\ pc = "decode" => pc' \in {"decode", "run", "crashed"}
       /\ (pc' = "exit" /\ emitted > 0) =>
             /\ status' = STATUS_PACKET_DONE
             /\ mode' = PROP_PACKET_SENSE => _sense_sensor'[1].value = bytearray(packet')
             /\ mode' = PROP_PACKET_CTRL => _ctrl_sensor'[1].value = bytearray(packet')]_vars

\* a stop was requested in the middle of a Sense frame and the reader has
\* gone on reading its payload
C13_Witness ==
    /\ pc = "read"
    /\ ~_run_thread
    /\ after_stop = 0
    /\ status = STATUS_SENSE_DATA
    /\ byte_read = 255
    /\ Len(packet) = 6

\* C14: a decode that returns normally gives every sensor of the packet's
\* kind a value that depends on the packet alone (none keeps None or its
\* previous value) and leaves the sensors of the other kind as they were.
C14_DecodeKinds ==
    [][(Returned /\ pc' = "run") =>
         IF mode = PROP_PACKET_SENSE
         THEN /\ _ctrl_sensor' = _ctrl_sensor
              /\ \A k \in 1..Len(_sense_sensor) : _sense_sensor'[k].value # None
              /\ _sense_sensor' = _decode_sense_packet(InitSenseSensors, packet).sensors
         ELSE /\ _sense_sensor' = _sense_sensor
              /\ \A k \in 1..Len(_ctrl_sensor) : _ctrl_sensor'[k].value # None
              /\ _ctrl_sensor' = _decode_ctrl_packet(InitCtrlSensors, packet)]_vars

\* a Control packet has been decoded after a Sense packet: the control
\* sensors hold its values, the sense sensors those of the Sense packet
C14_Witness ==
    /\ pc = "run"
    /\ emitted = 2
    /\ mode = PROP_PACKET_CTRL
    /\ _ctrl_sensor[1].value = bytearray(packet)
    /\ _ctrl_sensor[2].value = int(1)
    /\ _sense_sensor[1].value # None
    /\ _sense_sensor[11].value = _decode_temp(30, 31)

\* C16: after the header 02 02 L 10 and the counter the reader appends
\* exactly L bytes and takes the next byte as the checksum: it holds fewer
\* than L payload bytes while it reads the payload and L from then on.
C16_CompletesAfterLength ==
    /\ status = STATUS_SENSE_DATA => Len(packet) < length
    /\ status = STATUS_SENSE_CHECKSUM => Len(packet) = length
    /\ (status = STATUS_PACKET_DONE /\ mode = PROP_PACKET_SENSE) => Len(packet) = length

\* the states in which the reader looks for a header
HeaderStates ==
    {STATUS_WAITING, STATUS_PRE_1, STATUS_SENSE_PRE_2, STATUS_SENSE_PRE_LENGTH,
     STATUS_SENSE_PRE_3, STATUS_CTRL_PRE_2, STATUS_CTRL_PRE_3}

\* C17: a byte that does not match at PRE_1, at the sense marker or at the
\* control marker puts the reader in STATUS_WAITING and the call goes on (no
\* exception); in STATUS_WAITING and in every header state the packet is
\* empty.
C17_NoPartialBuffer ==
    [][/\ status' \in HeaderStates => packet' = <<>>
       /\ (pc = "read" /\ status' # status) =>
             /\ (status = STATUS_PRE_1 /\ byte_read' \notin {2, 21}) =>
                   (status' = STATUS_WAITING /\ pc' = "read")
             /\ (status = STATUS_SENSE_PRE_LENGTH /\ byte_read' # 16) =>
                   (status' = STATUS_WAITING /\ pc' = "read")
             /\ (status = STATUS_CTRL_PRE_2 /\ byte_read' # 17) =>
                   (status' = STATUS_WAITING /\ pc' = "read")]_vars

\* the byte after 02 02 26 was 0x11, not the marker 0x10
C17_Witness ==
    /\ pc = "read"
    /\ status = STATUS_WAITING
    /\ resyncs = 1
    /\ length = 38
    /\ byte_read = 17
    /\ packet = <<>>

\* C19: the checksum of the reader is a byte in every state, and stays one
\* whatever byte comes next.
C19_ChecksumIsByte ==
    /\ checksum_calculated \in 0..255
    /\ \A b \in {0, 1, 127, 128, 254, 255} :
          _add_to_checksum(checksum_calculated, b) \in 0..255

\* the payload byte 255 has been added to a checksum that was not 0: the
\* sum was above 255 and has been reduced
C19_Witness ==
    /\ pc = "read"
    /\ status = STATUS_SENSE_DATA
    /\ Len(packet) = 6
    /\ byte_read = 255
    /\ checksum_calculated \in 1..255

\* C20: every byte read is taken by the one branch of the status it is read
\* in: the reader leaves STATUS_WAITING only on a 2 read in STATUS_WAITING,
\* and a byte that does not match in a header state leaves it in
\* STATUS_WAITING, also when that byte is a 2.
C20_ByteExaminedOnce ==
    [][(pc = "read" /\ status' # status) =>
         /\ status = STATUS_WAITING => (byte_read' = 2 /\ status' = STATUS_PRE_1)
         /\ status = STATUS_PRE_1 =>
               status' = IF byte_read' = 2 THEN STATUS_SENSE_PRE_2
                         ELSE IF byte_read' = 21 THEN STATUS_CTRL_PRE_2
                         ELSE STATUS_WAITING
         /\ status = STATUS_SENSE_PRE_LENGTH =>
               status' = IF byte_read' = 16 THEN STATUS_SENSE_PRE_3 ELSE STATUS_WAITING
         /\ status = STATUS_CTRL_PRE_2 =>
               status' = IF byte_read' = 17 THEN STATUS_CTRL_PRE_3 ELSE STATUS_WAITING]_vars

\* a 2 read where the marker 0x11 was expected has left the reader in
\* STATUS_WAITING
C20_Witness ==
    /\ pc = "read"
    /\ status = STATUS_WAITING
    /\ resyncs = 1
    /\ byte_read = 2
    /\ checksum_calculated = _add_to_checksum(_add_to_checksum(2, 21), 2)

\* C18 (as claimed): once stop_thread has been called the worker decodes at
\* most one further packet.
C18_AtMostOneFrame_Original == after_stop <= 1

\* C18 (amended): while the flag stays cleared (no later run_thread sets it
\* again) the worker decodes at most one further packet, does not enter
\* _read_packet once that packet is decoded, and leaves its loop at the
\* next test.
C18_AtMostOneFrame ==
    [][/\ ~_run_thread' => after_stop' <= 1
       /\ (~_run_thread' /\ after_stop' = 1) => pc' \in {"run", "exit", "crashed"}
       /\ (~_run_thread /\ ~_run_thread' /\ pc = "run" /\ pc' # pc) => pc' = "exit"]_vars

\* the worker has exited after two packets, the second decoded after the
\* stop request
C18_Witness ==
    /\ pc = "exit"
    /\ ~_run_thread
    /\ emitted = 2
    /\ after_stop = 1

(***************************************************************************)
(* Properties of FnSpec.                                                   *)
(***************************************************************************)
Called(fn) == call.fn = fn /\ call.done

\* the bytes of p at the indices of K, in order
SubseqAt(p, K) ==
    [j \in 1..Cardinality(K) |->
        p[CHOOSE k \in K : Cardinality({m \in K : m <= k}) = j]]

\* p[1], p[2], ... (0-based) without every p[n] with n >= first, p[n] = 0 and
\* p[n-1] = 2
WithoutPads(p, first) ==
    SubseqAt(p, {k \in 2..Len(p) : ~(k - 1 >= first /\ p[k] = 0 /\ p[k - 1] = 2)})

NoEscapePair(p) == \A k \in 2..Len(p) : ~(p[k - 1] = 2 /\ p[k] = 0)

\* C6 (as claimed): p[n], n >= 1, is omitted exactly when it is 0 and p[n-1]
\* is 2.
C6_Unescape_Original ==
    Called("_sense_packet_to_data") =>
        call.result = bytearray(WithoutPads(call.args[1], 1))

\* C6 (amended): _sense_packet_to_data returns p[1], p[2], ... in order,
\* omitting p[n] exactly when n >= 2, p[n] = 0 and p[n-1] = 2; p[1] is always
\* copied.
C6_Unescape ==
    Called("_sense_packet_to_data") =>
        call.result = bytearray(WithoutPads(call.args[1], 2))

C6_Witness ==
    /\ Called("_sense_packet_to_data")
    /\ call.args[1] = <<2, 0, 2, 0, 0>>
    /\ call.result = bytearray(<<0, 2, 0>>)

\* C7 (as claimed): a payload without a 2,0 pair is returned unchanged.
C7_NoPairUnchanged_Original ==
    (Called("_sense_packet_to_data") /\ NoEscapePair(call.args[1])) =>
        call.result = bytearray(call.args[1])

\* C7 (amended): of a payload without a 2,0 pair, _sense_packet_to_data
\* returns every byte but the first, unchanged.
C7_NoPairTail ==
    (Called("_sense_packet_to_data") /\ NoEscapePair(call.args[1])) =>
        call.result = bytearray(SubSeq(call.args[1], 2, Len(call.args[1])))

C7_Witness ==
    /\ Called("_sense_packet_to_data")
    /\ NoEscapePair(call.args[1])
    /\ call.args[1] = <<7, 0, 2, 7>>
    /\ call.result = bytearray(<<0, 2, 7>>)

\* the float as a number of tenths
Tenths(f) == (IF f.neg THEN -1 ELSE 1) * (f.whole * 10 + f.tenth)

\* C8: _decode_temp returns, in tenths, the two's-complement signed 16-bit
\* value of the word byte_1 * 256 + byte_2.
C8_DecodeTemp ==
    Called("_decode_temp") =>
        LET word == call.args[1] * 256 + call.args[2]
            v == Tenths(call.result)
        IN /\ call.result.t = "float"
           /\ call.result.tenth \in 0..9
           /\ call.result.neg = (v < 0)
           /\ v \in -32768..32767
           /\ (v - word) % 65536 = 0
           /\ word <= 32767 => v = word
           /\ word >= 32768 => (v = word - 65536 /\ v < 0)
           /\ word = 65536 - 123 => call.result = float(TRUE, 12, 3)

C8_Witness ==
    /\ Called("_decode_temp")
    /\ call.args = <<255, 133>>
    /\ call.result = float(TRUE, 12, 3)

\* digit j of the binary numeral of the byte b (digit 0 the least significant)
BinaryDigit(b, j) ==
    LET numeral == CHOOSE d \in [0..7 -> {0, 1}] :
                      b = d[0] + 2 * d[1] + 4 * d[2] + 8 * d[3] + 16 * d[4]
                          + 32 * d[5] + 64 * d[6] + 128 * d[7]
    IN numeral[j]

\* C10: decoding a Control payload sets every Flag sensor of index n to bit
\* n mod 8 of payload byte n div 8; with byte 2 = 4, index 17 gives 0 and
\* index 18 gives 1.
C10_CtrlFlags ==
    Called("_decode_ctrl_packet") =>
        LET p == call.args[1]
        IN /\ \A k \in 1..Len(_ctrl_sensor) :
                _ctrl_sensor[k].sensor_type = PROP_SENSOR_FLAG =>
                    _ctrl_sensor[k].value =
                        int(BinaryDigit(At(p, _ctrl_sensor[k].index \div 8),
                                        _ctrl_sensor[k].index % 8))
           /\ _ctrl_sensor[2].index = 17
           /\ _ctrl_sensor[3].index = 25
           /\ At(p, 2) = 4 => (ctrl_flag(p, 17) = 0 /\ ctrl_flag(p, 18) = 1)

C10_Witness ==
    /\ Called("_decode_ctrl_packet")
    /\ At(call.args[1], 2) = 4
    /\ At(call.args[1], 3) = 2
    /\ _ctrl_sensor[2].value = int(0)
    /\ _ctrl_sensor[3].value = int(1)

\* C15: when one payload byte of a frame is replaced by another byte, the
\* checksum computed over the frame changes, it differs from the checksum
\* byte of the frame, and the frame is not returned as a packet.
C15_CorruptionDetected ==
    Called("_read_packet") =>
        /\ call.result.corrupt.checksum_calculated
             # call.result.intact.checksum_calculated
        /\ call.result.corrupt.checksum_calculated # call.result.corrupt.checksum
        /\ call.result.corrupt.status # STATUS_PACKET_DONE

(***************************************************************************)
(* Properties of WorkerSpec.                                               *)
(***************************************************************************)
\* C11: the values a consumer reads from the list it got from get_sensors
\* do not change while it holds the list.
C11_ViewImmutable ==
    [][(view # None /\ view' = view) => ViewValues(view)' = ViewValues(view)]_vars

\* the value of the sensor of a reference when the decode in progress began
OldValue(ref) == Deref(ref, before.sense, before.ctrl).value

\* the value of the sensor of a reference once the decode in progress is over
NewValue(ref) ==
    IF mode = PROP_PACKET_SENSE
    THEN Deref(ref, _decode_sense_packet(before.sense, packet).sensors, before.ctrl).value
    ELSE Deref(ref, before.sense, _decode_ctrl_packet(before.ctrl, packet)).value

\* C12: a consumer that reads the value of one sensor while the worker is in
\* a decode reads either the value the sensor had before this decode or the
\* whole value this decode gives it.
C12_AtomicPerSensor ==
    [][(pc = "decode" /\ observed' # observed)
         => observed'.value \in {OldValue(view[observed'.n]),
                                 NewValue(view[observed'.n])}]_vars

\* in the middle of the decode of a second Sense packet the consumer has read
\* the new temperature of Supply, which differs from the previous one
C12_Witness ==
    /\ pc = "decode"
    /\ mode = PROP_PACKET_SENSE
    /\ decode_k \in 2..10
    /\ observed # None
    /\ observed.n = 2
    /\ observed.value = NewValue(view[2])
    /\ OldValue(view[2]) \notin {None, observed.value}

====
